---- MODULE Spec2Model ----
(***************************************************************************)
(* Trading dashboard: the session store (store/useStore), the data loader  *)
(* hook (hooks/useTradingData.ts) and the chart component                  *)
(* (components/chart/TradingChart.tsx) with its series reconciliation,     *)
(* point lookup, trade navigation and marker construction.                 *)
(*                                                                         *)
(* Conventions.                                                            *)
(*  - A nullable value is a sequence of length at most one: <<>> is        *)
(*    null/undefined and <<x>> is the value x.                             *)
(*  - A timestamp string "....:SS" is <<SS>> and "....:SS.mmm" is          *)
(*    <<SS, mmm>>: the date part is common to a day and is left out.       *)
(*    Strings compare lexicographically, as JavaScript compares them.      *)
(*  - A chart time is new Date(timestamp).getTime() / 1000.  The quotient  *)
(*    is kept in thousandths of a second, so 5000 is the time 5 and 5500   *)
(*    the time 5.5.                                                        *)
(*  - Every event handler and every continuation after an await runs to    *)
(*    completion, followed by the React effects whose dependencies it      *)
(*    changed, as one step.                                                *)
(***************************************************************************)
EXTENDS Bags, FiniteSets, Integers, Sequences, TLC

\* Bounds of the model.
MaxLen == 3
MaxTime == 3
MaxRequests == 2
MarkLen == 2
MarkTime == 2
PlotLen == 2
PlotTime == 2

VARIABLES
  \* store/useStore
  selectedDate, tradingDays, currentData, loading, error,
  availableFilters, selectedFilters, availableUnderlyings, chartSettings,
  viewMode,
  \* TradingChart
  selectedSnapshot, pnlData, underlyingData, markers,
  \* requests in flight
  inflight, issued, lastLoad,
  \* the last event handled
  lastOp

storeVars == <<selectedDate, tradingDays, currentData, loading, error,
               availableFilters, selectedFilters, availableUnderlyings,
               chartSettings, viewMode>>
chartVars == <<selectedSnapshot, pnlData, underlyingData, markers>>
netVars == <<inflight, issued, lastLoad>>
vars == <<storeVars, chartVars, netVars, lastOp>>

None == <<>>
Some(x) == <<x>>

\* string | null fields of the store
Null == "null"

--------------------------------------------------------------------------
\* Values of the data model (types/index.ts)

\* a JavaScript value found where a number is expected
Num(v) == [kind |-> "number", v |-> v]
NaN == [kind |-> "NaN", v |-> 0]
Undefined == [kind |-> "undefined", v |-> 0]
Infinity == [kind |-> "Infinity", v |-> 0]
JsonNull == [kind |-> "null", v |-> 0]

\* typeof x === 'number'
TypeofNumber(x) == x.kind \in {"number", "NaN", "Infinity"}
IsNaN(x) == x.kind \in {"NaN", "undefined"}

\* TradeMarker.type, and "absent" for a snapshot without trade_marker
Absent == "absent"
MarkerTypes == {"none", "adjustment", "square_up"}

SnapshotData(ts, pnl, und, marker, positions) ==
  [timestamp |-> ts, total_pnl |-> pnl, underlying_price |-> und,
   trade_marker |-> marker, positions |-> positions]

TradingDayData(date, timeseries) ==
  [date |-> date, timeseries |-> timeseries]

\* new Date(timestamp).getTime(): milliseconds
DateGetTime(ts) == ts[1] * 1000 + (IF Len(ts) > 1 THEN ts[2] ELSE 0)

\* a < b on strings
RECURSIVE StringLess(_, _)
StringLess(a, b) ==
  IF b = <<>> THEN FALSE
  ELSE IF a = <<>> THEN TRUE
  ELSE IF a[1] # b[1] THEN a[1] < b[1]
  ELSE StringLess(Tail(a), Tail(b))

--------------------------------------------------------------------------
\* Series Reconciler (TradingChart data effect)

\* new Date(snapshot.timestamp).getTime() / 1000, in thousandths
ChartTime(snapshot) == DateGetTime(snapshot.timestamp)

ChartDataOf(snapshot) ==
  [time |-> ChartTime(snapshot), value |-> snapshot.total_pnl,
   underlying |-> snapshot.underlying_price, snapshot |-> snapshot]

ToChartData(timeseries) ==
  [i \in 1..Len(timeseries) |-> ChartDataOf(timeseries[i])]

\* acc.findIndex(item => item.time === t), 0 for -1
FindIndex(acc, t) ==
  IF \E i \in 1..Len(acc) : acc[i].time = t
  THEN CHOOSE i \in 1..Len(acc) :
         /\ acc[i].time = t
         /\ \A j \in 1..(i - 1) : acc[j].time # t
  ELSE 0

\* the reduce callback keeping the entry it saw first
DedupStepKeepFirst(acc, current) ==
  IF FindIndex(acc, current.time) = 0 THEN Append(acc, current) ELSE acc

\* one step of the reduce callback
DedupStep(acc, current) ==
  LET existingIndex == FindIndex(acc, current.time)
  IN IF existingIndex = 0 THEN Append(acc, current)
     ELSE [acc EXCEPT ![existingIndex] = current]

RECURSIVE Reduce(_, _, _)
Reduce(acc, chartData, i) ==
  IF i > Len(chartData) THEN acc
  ELSE Reduce(DedupStep(acc, chartData[i]), chartData, i + 1)

\* insertion of x into a list sorted by time, after the entries not greater
RECURSIVE InsertByTime(_, _)
InsertByTime(sorted, x) ==
  IF sorted = <<>> THEN <<x>>
  ELSE IF x.time < Head(sorted).time THEN <<x>> \o sorted
  ELSE <<Head(sorted)>> \o InsertByTime(Tail(sorted), x)

\* the list turned round instead of sorted
SortByTimeReversing(seq) == [i \in 1..Len(seq) |-> seq[Len(seq) + 1 - i]]

\* the list left in the order of the reduce
SortByTimeOmitted(seq) == seq

\* Array.prototype.sort((a, b) => a.time - b.time): stable, ascending
RECURSIVE SortByTime(_)
SortByTime(seq) ==
  IF seq = <<>> THEN <<>>
  ELSE InsertByTime(SortByTime(SubSeq(seq, 1, Len(seq) - 1)), seq[Len(seq)])

\* the reconciled list without the entries whose value cannot be plotted
UniqueChartDataValidOnly(timeseries) ==
  SelectSeq(SortByTime(Reduce(<<>>, ToChartData(timeseries), 1)),
            LAMBDA d : TypeofNumber(d.value) /\ ~IsNaN(d.value))

UniqueChartData(timeseries) ==
  SortByTime(Reduce(<<>>, ToChartData(timeseries), 1))

--------------------------------------------------------------------------
\* Plot series handed to the rendering layer (TradingChart data effect)

PnlValid(d) == TypeofNumber(d.value) /\ ~IsNaN(d.value)

UnderlyingValid(d) ==
  /\ d.underlying.kind # "null"
  /\ d.underlying.kind # "undefined"
  /\ TypeofNumber(d.underlying)
  /\ ~IsNaN(d.underlying)

PnlPoint(d) == [time |-> d.time, value |-> d.value]

UnderlyingPoint(d) == [time |-> d.time, value |-> d.underlying]

PnlSeries(timeseries) ==
  LET kept == SelectSeq(UniqueChartData(timeseries), PnlValid)
  IN [i \in 1..Len(kept) |-> PnlPoint(kept[i])]

UnderlyingSeries(timeseries) ==
  LET kept == SelectSeq(UniqueChartData(timeseries), UnderlyingValid)
  IN [i \in 1..Len(kept) |-> UnderlyingPoint(kept[i])]

--------------------------------------------------------------------------
\* Marker Builder (TradingChart marker effect)

\* snapshot.trade_marker && snapshot.trade_marker.type !== 'none'
HasTradeMarker(snapshot) ==
  snapshot.trade_marker # Absent /\ snapshot.trade_marker # "none"

IsTradeEntry(d) == HasTradeMarker(d.snapshot)

\* a trade marker with one text for every type
TradeMarkerOfOneText(d) ==
  [time |-> d.time, position |-> "belowBar", shape |-> "circle", text |-> "T"]

TradeMarkerOf(d) ==
  [time |-> d.time, position |-> "belowBar", shape |-> "circle",
   text |-> IF d.snapshot.trade_marker = "square_up" THEN "S" ELSE "T"]

SelectionMarkerOf(snapshot) ==
  [time |-> DateGetTime(snapshot.timestamp), position |-> "aboveBar",
   shape |-> "arrowDown", text |-> ""]

\* the trade markers built whatever the flag says
TradeMarkersAlways(timeseries, showTradeMarkers) ==
  LET kept == SelectSeq(UniqueChartData(timeseries), IsTradeEntry)
  IN [i \in 1..Len(kept) |-> TradeMarkerOf(kept[i])]

TradeMarkers(timeseries, showTradeMarkers) ==
  IF showTradeMarkers
  THEN LET kept == SelectSeq(UniqueChartData(timeseries), IsTradeEntry)
       IN [i \in 1..Len(kept) |-> TradeMarkerOf(kept[i])]
  ELSE <<>>

\* the marker list in which the selection marker takes the place of a
\* trade marker of its time
AllMarkersReplacing(timeseries, showTradeMarkers, selected) ==
  LET tradeMarkers == TradeMarkers(timeseries, showTradeMarkers)
      selectionMarker == SelectionMarkerOf(selected[1])
      Elsewhere(m) == m.time # selectionMarker.time
  IN IF selected # None
     THEN SortByTime(Append(SelectSeq(tradeMarkers, Elsewhere), selectionMarker))
     ELSE tradeMarkers

\* the marker list with the selection marker left where it was pushed
AllMarkersUnsorted(timeseries, showTradeMarkers, selected) ==
  LET tradeMarkers == TradeMarkers(timeseries, showTradeMarkers)
  IN IF selected # None
     THEN Append(tradeMarkers, SelectionMarkerOf(selected[1]))
     ELSE tradeMarkers

AllMarkers(timeseries, showTradeMarkers, selected) ==
  LET tradeMarkers == TradeMarkers(timeseries, showTradeMarkers)
      pushed == IF selected # None
                THEN Append(tradeMarkers, SelectionMarkerOf(selected[1]))
                ELSE tradeMarkers
  IN SortByTime(pushed)

--------------------------------------------------------------------------
\* Point Locator (chart.subscribeClick handler)

\* a lookup falling back to the entry nearest before the time, else the first
FindSnapshotNearest(timeseries, time) ==
  LET unique == UniqueChartData(timeseries)
      i == FindIndex(unique, time)
      before == {k \in 1..Len(unique) : unique[k].time < time}
  IN IF i # 0 THEN Some(unique[i].snapshot)
     ELSE IF unique = <<>> THEN None
     ELSE IF before = {} THEN Some(unique[1].snapshot)
     ELSE Some(unique[CHOOSE k \in before : \A j \in before : j <= k].snapshot)

\* uniqueChartData.find(item => item.time === time)?.snapshot
FindSnapshot(timeseries, time) ==
  LET unique == UniqueChartData(timeseries)
      i == FindIndex(unique, time)
  IN IF i = 0 THEN None ELSE Some(unique[i].snapshot)

\* The selection the click handler leaves.  param.time = 0 stands for a
\* param without time: !param.time holds of undefined and of 0 alike.
ClickResult(data, selected, param) ==
  IF ~param.point \/ param.time = 0 \/ data = None THEN None
  ELSE LET snapshot == FindSnapshot(data[1].timeseries, param.time)
       IN IF snapshot # None THEN snapshot ELSE selected

--------------------------------------------------------------------------
\* Trade Navigator (handleNavigate, getNavigationState)

\* currentData.timeseries.filter(trade_marker && type !== 'none')
TradeSnapshots(timeseries) == SelectSeq(timeseries, HasTradeMarker)

\* array.find(s => s.timestamp > currentTimestamp)
FindAfter(snapshots, currentTimestamp) ==
  LET hits == {i \in 1..Len(snapshots) :
                 StringLess(currentTimestamp, snapshots[i].timestamp)}
  IN IF hits = {} THEN None
     ELSE Some(snapshots[CHOOSE i \in hits : \A j \in hits : i <= j])

\* array.slice().reverse().find(s => s.timestamp < currentTimestamp)
FindBeforeReversed(snapshots, currentTimestamp) ==
  LET hits == {i \in 1..Len(snapshots) :
                 StringLess(snapshots[i].timestamp, currentTimestamp)}
  IN IF hits = {} THEN None
     ELSE Some(snapshots[CHOOSE i \in hits : \A j \in hits : i >= j])

\* handleNavigate starting from the ends of the list when nothing is selected
NavigateResultFromEnds(data, selected, direction) ==
  IF data = None THEN selected
  ELSE LET tradeSnapshots == TradeSnapshots(data[1].timeseries)
           found == IF selected = None
                    THEN IF Len(tradeSnapshots) = 0 THEN None
                         ELSE IF direction = "next"
                         THEN Some(tradeSnapshots[1])
                         ELSE Some(tradeSnapshots[Len(tradeSnapshots)])
                    ELSE IF direction = "next"
                    THEN FindAfter(tradeSnapshots, selected[1].timestamp)
                    ELSE FindBeforeReversed(tradeSnapshots,
                                            selected[1].timestamp)
       IN IF found # None THEN found ELSE selected

\* The selection handleNavigate(direction) leaves.
NavigateResult(data, selected, direction) ==
  IF data = None \/ selected = None THEN selected
  ELSE LET tradeSnapshots == TradeSnapshots(data[1].timeseries)
           currentTimestamp == selected[1].timestamp
           found == IF direction = "next"
                    THEN FindAfter(tradeSnapshots, currentTimestamp)
                    ELSE FindBeforeReversed(tradeSnapshots, currentTimestamp)
       IN IF Len(tradeSnapshots) = 0 THEN selected
          ELSE IF found # None THEN found
          ELSE selected

\* getNavigationState() comparing with >= and <=
GetNavigationStateInclusive(data, selected) ==
  IF data = None \/ selected = None
  THEN [canNavigatePrev |-> FALSE, canNavigateNext |-> FALSE]
  ELSE LET tradeSnapshots == TradeSnapshots(data[1].timeseries)
           currentTimestamp == selected[1].timestamp
       IN [canNavigatePrev |->
             \E i \in 1..Len(tradeSnapshots) :
               ~StringLess(currentTimestamp, tradeSnapshots[i].timestamp),
           canNavigateNext |->
             \E i \in 1..Len(tradeSnapshots) :
               ~StringLess(tradeSnapshots[i].timestamp, currentTimestamp)]

\* getNavigationState()
GetNavigationState(data, selected) ==
  IF data = None \/ selected = None
  THEN [canNavigatePrev |-> FALSE, canNavigateNext |-> FALSE]
  ELSE LET tradeSnapshots == TradeSnapshots(data[1].timeseries)
           currentTimestamp == selected[1].timestamp
       IN IF Len(tradeSnapshots) = 0
          THEN [canNavigatePrev |-> FALSE, canNavigateNext |-> FALSE]
          ELSE [canNavigatePrev |->
                  \E i \in 1..Len(tradeSnapshots) :
                    StringLess(tradeSnapshots[i].timestamp, currentTimestamp),
                canNavigateNext |->
                  \E i \in 1..Len(tradeSnapshots) :
                    StringLess(currentTimestamp, tradeSnapshots[i].timestamp)]

canNavigatePrev == GetNavigationState(currentData, selectedSnapshot).canNavigatePrev

canNavigateNext == GetNavigationState(currentData, selectedSnapshot).canNavigateNext

--------------------------------------------------------------------------
\* TradingChart: rendering after a handler has run

\* Dashboard renders TradingChart and ControlPanel unless the store has an
\* error; TradingChart renders the chart and the tooltip unless loading.
ChartOnScreen == error = Null /\ ~loading

\* The component state and the data handed to the chart once the effects
\* have run.  sel is the selection the handler asked for, dataChanged tells
\* that setCurrentData was called.  A component that was not mounted (the
\* error page was shown) mounts with its initial state and runs every
\* effect; an unmounted one keeps nothing.
ChartUpdate(sel, dataChanged) ==
  LET mounted == error' = Null
      fresh == error # Null
      selNext == IF mounted /\ ~fresh THEN sel ELSE None
      underlyingChanged ==
        chartSettings'.selectedUnderlying # chartSettings.selectedUnderlying
      flagChanged ==
        chartSettings'.showTradeMarkers # chartSettings.showTradeMarkers
      \* init effect: [currentData, selectedUnderlying]
      recreated == fresh \/ dataChanged \/ underlyingChanged
      \* data effect: [currentData, showTradeMarkers, selectedUnderlying]
      runData == recreated \/ flagChanged
      \* marker effect: [currentData, showTradeMarkers, selectedSnapshot]
      runMarkers ==
        fresh \/ dataChanged \/ flagChanged \/ selNext # selectedSnapshot
      hasData == currentData' # None
  IN /\ selectedSnapshot' = selNext
     /\ pnlData' =
          IF ~mounted THEN <<>>
          ELSE IF runData /\ hasData
          THEN PnlSeries(currentData'[1].timeseries)
          ELSE IF recreated THEN <<>> ELSE pnlData
     /\ underlyingData' =
          IF ~mounted THEN <<>>
          ELSE IF runData /\ hasData
                  /\ chartSettings'.selectedUnderlying # Null
          THEN UnderlyingSeries(currentData'[1].timeseries)
          ELSE IF recreated THEN <<>> ELSE underlyingData
     /\ markers' =
          IF ~mounted THEN <<>>
          ELSE IF runMarkers /\ hasData
          THEN AllMarkers(currentData'[1].timeseries,
                          chartSettings'.showTradeMarkers, selNext)
          ELSE IF recreated THEN <<>> ELSE markers

--------------------------------------------------------------------------
\* Events of the chart

NoTime == 0

\* what the rendering layer reports for a click
ClickParams ==
  {[point |-> FALSE, time |-> NoTime]} \cup
  {[point |-> TRUE, time |-> t] :
     t \in {NoTime} \cup {s * 1000 : s \in 1..MaxTime}}

\* chart.subscribeClick handler
Click(param) ==
  /\ ChartOnScreen
  /\ UNCHANGED <<storeVars, netVars>>
  /\ ChartUpdate(ClickResult(currentData, selectedSnapshot, param), FALSE)
  /\ lastOp' = <<"click">>

\* handleNavigate, the onNavigate callback of the tooltip
Navigate(direction) ==
  /\ ChartOnScreen
  /\ selectedSnapshot # None
  /\ UNCHANGED <<storeVars, netVars>>
  /\ ChartUpdate(NavigateResult(currentData, selectedSnapshot, direction),
                 FALSE)
  /\ lastOp' = <<"navigate", direction>>

\* handleCloseTooltip
CloseTooltip ==
  /\ ChartOnScreen
  /\ selectedSnapshot # None
  /\ UNCHANGED <<storeVars, netVars>>
  /\ ChartUpdate(None, FALSE)
  /\ lastOp' = <<"close">>

\* ControlPanel: the Trades button
ToggleTradeMarkers ==
  /\ error = Null
  /\ chartSettings' =
       [chartSettings EXCEPT !.showTradeMarkers = ~chartSettings.showTradeMarkers]
  /\ UNCHANGED <<selectedDate, tradingDays, currentData, loading, error,
                 availableFilters, selectedFilters, availableUnderlyings>>
  /\ UNCHANGED netVars
  /\ ChartUpdate(selectedSnapshot, FALSE)
  /\ UNCHANGED viewMode
  /\ lastOp' = <<"toggle">>

--------------------------------------------------------------------------
\* The chart over one loaded day: every snapshot list the source can
\* deliver within the bounds, in every delivery order.

Timestamps == {<<s>> : s \in 1..MaxTime}

\* The markers of the delivered snapshots.  'square_up' differs from
\* 'adjustment' in the text of the trade marker only.
ChartMarkers == {Absent, "none", "adjustment"}

ChartSnapshots ==
  {SnapshotData(ts, Num(100), Undefined, m, <<>>) :
     ts \in Timestamps, m \in ChartMarkers}

\* the delivered lists of n snapshots
ChartInputs(n) == [1..n -> ChartSnapshots]

\* the initial chartSettings of the store
InitialChartSettings ==
  [selectedUnderlying |-> Null, showTradeMarkers |-> TRUE,
   showMarketContext |-> TRUE, isFullscreen |-> FALSE,
   displayMode |-> "quantity"]

\* The store and the chart once the day `data` has loaded and no request is
\* in flight.
InitOver(data) ==
  /\ selectedDate = "d1"
  /\ tradingDays = <<"d1">>
  /\ currentData = data
  /\ loading = FALSE
  /\ error = Null
  /\ availableFilters = <<>>
  /\ selectedFilters = <<>>
  /\ availableUnderlyings = <<>>
  /\ chartSettings = InitialChartSettings
  /\ viewMode = "expanded"
  /\ selectedSnapshot = None
  /\ pnlData = IF data = None THEN <<>> ELSE PnlSeries(data[1].timeseries)
  /\ underlyingData = <<>>
  /\ markers = IF data = None THEN <<>>
               ELSE AllMarkers(data[1].timeseries, TRUE, None)
  /\ inflight = EmptyBag
  /\ issued = 0
  /\ lastLoad = None
  /\ lastOp = <<"init">>

Init ==
  \/ InitOver(None)
  \/ \E n \in 0..MaxLen : \E ts \in ChartInputs(n) :
       InitOver(Some(TradingDayData("d1", ts)))

Next ==
  \/ \E param \in ClickParams : Click(param)
  \/ \E direction \in {"prev", "next"} : Navigate(direction)
  \/ CloseTooltip

Spec == Init /\ [][Next]_vars

--------------------------------------------------------------------------
\* The chart over one loaded day whose snapshots carry every kind of trade
\* marker, with the Trades button of the control panel.

MarkSnapshots ==
  {SnapshotData(<<t>>, Num(100), Undefined, m, <<>>) :
     t \in 1..MarkTime, m \in {Absent} \cup MarkerTypes}

\* the delivered lists of n snapshots
MarkInputs(n) == [1..n -> MarkSnapshots]

InitMarkers ==
  \E n \in 0..MarkLen : \E ts \in MarkInputs(n) :
    InitOver(Some(TradingDayData("d1", ts)))

NextMarkers ==
  \/ \E param \in ClickParams : Click(param)
  \/ \E direction \in {"prev", "next"} : Navigate(direction)
  \/ CloseTooltip
  \/ ToggleTradeMarkers

SpecMarkers == InitMarkers /\ [][NextMarkers]_vars

--------------------------------------------------------------------------
\* The chart over one loaded day whose timestamps may carry milliseconds
\* and whose total_pnl may be any value JSON and arithmetic can leave there.

\* "...:SS" and "...:SS.500"
PlotTimestamps ==
  {<<t>> : t \in 1..PlotTime} \cup {<<t, 500>> : t \in 1..PlotTime}

PlotValues == {Num(100), NaN, Infinity, Undefined}

PlotSnapshots ==
  {SnapshotData(ts, pnl, Undefined, Absent, <<>>) :
     ts \in PlotTimestamps, pnl \in PlotValues}

\* the delivered lists of n snapshots
PlotInputs(n) == [1..n -> PlotSnapshots]

\* what the rendering layer reports for a click on such a day
PlotClickParams ==
  {[point |-> FALSE, time |-> NoTime]} \cup
  {[point |-> TRUE, time |-> DateGetTime(ts)] : ts \in PlotTimestamps}

InitPlot ==
  \E n \in 0..PlotLen : \E ts \in PlotInputs(n) :
    InitOver(Some(TradingDayData("d1", ts)))

NextPlot ==
  \/ \E param \in PlotClickParams : Click(param)
  \/ CloseTooltip
  \/ ToggleTradeMarkers

SpecPlot == InitPlot /\ [][NextPlot]_vars

--------------------------------------------------------------------------
\* The server behind services/api.ts

ServerDays == <<"d1", "d2", "d3">>

\* the keys of the FilterOptions of a day
ServerFilters(date) == IF date = "d1" THEN <<"f1">> ELSE <<>>

PositionOf(symbol) == [instrument |-> [underlying_symbol |-> symbol]]

\* GET /data/{date}?filters=...  A filter names an underlying and an expiry:
\* f1 keeps the NIFTY positions of d1.  Nothing was recorded on d3.
ServerData(date, filters) ==
  IF date = "d1" /\ filters = <<>>
  THEN TradingDayData("d1",
         <<SnapshotData(<<1>>, Num(100), Num(50), "adjustment",
                        <<PositionOf("NIFTY")>>),
           SnapshotData(<<2>>, Num(150), Num(51), Absent,
                        <<PositionOf("NIFTY"), PositionOf("BANKNIFTY")>>)>>)
  ELSE IF date = "d1"
  THEN TradingDayData("d1",
         <<SnapshotData(<<1>>, Num(10), Num(50), "adjustment",
                        <<PositionOf("NIFTY")>>)>>)
  ELSE IF date = "d2"
  THEN TradingDayData("d2",
         <<SnapshotData(<<3>>, Num(90), Num(70), "square_up",
                        <<PositionOf("BANKNIFTY")>>)>>)
  ELSE TradingDayData(date, <<>>)

--------------------------------------------------------------------------
\* Data loader (hooks/useTradingData.ts)

\* a request awaited by the hook
Request(kind, date, filters) ==
  [kind |-> kind, date |-> date, filters |-> filters]

DaysRequest == Request("days", "", <<>>)

LoadKey(date, filters) == [date |-> date, filters |-> filters]

\* n copies of the request r
Copies(r, n) == [x \in {r} |-> n]

\* the symbols in the order of Array.prototype.sort()
SymbolOrder == <<"BANKNIFTY", "NIFTY">>

\* the sorted underlyings of the positions of a snapshot list
SortedUnderlyings(timeseries) ==
  LET underlyings ==
        UNION {{timeseries[i].positions[j].instrument.underlying_symbol :
                  j \in 1..Len(timeseries[i].positions)} :
               i \in 1..Len(timeseries)}
      IsIn(symbol) == symbol \in underlyings
  IN SelectSeq(SymbolOrder, IsIn)

\* the components calling useTradingData() that are mounted: Dashboard
\* always, ControlPanel unless the error page is shown
HookInstances == IF error = Null THEN 2 ELSE 1

\* loadTradingDays: the request has answered
DaysOk ==
  /\ BagIn(DaysRequest, inflight)
  /\ inflight' = inflight (-) SetToBag({DaysRequest})
  /\ tradingDays' = ServerDays
  /\ loading' = FALSE
  /\ UNCHANGED <<selectedDate, currentData, error, availableFilters,
                 selectedFilters, availableUnderlyings, chartSettings>>
  /\ UNCHANGED <<issued, lastLoad>>
  /\ ChartUpdate(selectedSnapshot, FALSE)
  /\ UNCHANGED viewMode
  /\ lastOp' = <<"days">>

\* loadTradingDays: the request has failed
DaysFail ==
  /\ BagIn(DaysRequest, inflight)
  /\ inflight' = inflight (-) SetToBag({DaysRequest})
  /\ error' = "Failed to load trading days"
  /\ loading' = FALSE
  /\ UNCHANGED <<selectedDate, tradingDays, currentData, availableFilters,
                 selectedFilters, availableUnderlyings, chartSettings>>
  /\ UNCHANGED <<issued, lastLoad>>
  /\ ChartUpdate(selectedSnapshot, FALSE)
  /\ UNCHANGED viewMode
  /\ lastOp' = <<"daysFailed">>

\* loadDataForDate selecting the first underlying whatever is selected
DataOkAlwaysSelect(r) ==
  /\ r.kind = "data"
  /\ BagIn(r, inflight)
  /\ inflight' = inflight (-) SetToBag({r})
  /\ LET dayData == ServerData(r.date, r.filters)
         sortedUnderlyings == SortedUnderlyings(dayData.timeseries)
     IN /\ availableFilters' = ServerFilters(r.date)
        /\ currentData' = Some(dayData)
        /\ availableUnderlyings' = sortedUnderlyings
        /\ chartSettings' =
             IF Len(sortedUnderlyings) > 0
             THEN [chartSettings EXCEPT
                     !.selectedUnderlying = sortedUnderlyings[1]]
             ELSE chartSettings
  /\ loading' = FALSE
  /\ UNCHANGED <<selectedDate, tradingDays, error, selectedFilters>>
  /\ UNCHANGED <<issued, lastLoad>>
  /\ ChartUpdate(selectedSnapshot, TRUE)
  /\ UNCHANGED viewMode
  /\ lastOp' = <<"data">>

\* loadDataForDate(date, filters): both requests have answered
DataOk(r) ==
  /\ r.kind = "data"
  /\ BagIn(r, inflight)
  /\ inflight' = inflight (-) SetToBag({r})
  /\ LET dayData == ServerData(r.date, r.filters)
         sortedUnderlyings == SortedUnderlyings(dayData.timeseries)
     IN /\ availableFilters' = ServerFilters(r.date)
        /\ currentData' = Some(dayData)
        /\ availableUnderlyings' = sortedUnderlyings
        /\ chartSettings' =
             IF Len(sortedUnderlyings) > 0
                /\ chartSettings.selectedUnderlying = Null
             THEN [chartSettings EXCEPT
                     !.selectedUnderlying = sortedUnderlyings[1]]
             ELSE chartSettings
  /\ loading' = FALSE
  /\ UNCHANGED <<selectedDate, tradingDays, error, selectedFilters>>
  /\ UNCHANGED <<issued, lastLoad>>
  /\ ChartUpdate(selectedSnapshot, TRUE)
  /\ UNCHANGED viewMode
  /\ lastOp' = <<"data">>

\* loadDataForDate(date, filters): a request has failed
DataFail(r) ==
  /\ r.kind = "data"
  /\ BagIn(r, inflight)
  /\ inflight' = inflight (-) SetToBag({r})
  /\ error' = "Failed to load trading data"
  /\ currentData' = None
  /\ availableFilters' = <<>>
  /\ loading' = FALSE
  /\ UNCHANGED <<selectedDate, tradingDays, selectedFilters,
                 availableUnderlyings, chartSettings>>
  /\ UNCHANGED <<issued, lastLoad>>
  /\ ChartUpdate(selectedSnapshot, TRUE)
  /\ UNCHANGED viewMode
  /\ lastOp' = <<"dataFailed">>

\* The load effect [selectedDate, selectedFilters] of every mounted hook
\* instance after the store has taken a new date or a new selection of
\* filters: loadDataForDate up to the await.
LoadEffect(date, filters) ==
  /\ loading' = TRUE
  /\ error' = Null
  /\ inflight' = inflight (+) Copies(Request("data", date, filters),
                                     HookInstances)
  /\ lastLoad' = Some(LoadKey(date, filters))

\* DatePicker onChange: useStore.setSelectedDate, then the load effect
SetSelectedDate(date) ==
  /\ error = Null
  /\ ~loading
  /\ \E i \in 1..Len(tradingDays) : tradingDays[i] = date
  /\ date # selectedDate
  /\ issued < MaxRequests
  /\ issued' = issued + 1
  /\ selectedDate' = date
  /\ selectedFilters' = <<>>
  /\ availableFilters' = <<>>
  /\ availableUnderlyings' = <<>>
  /\ chartSettings' = [chartSettings EXCEPT !.selectedUnderlying = Null]
  /\ UNCHANGED <<tradingDays, currentData>>
  /\ LoadEffect(date, <<>>)
  /\ ChartUpdate(selectedSnapshot, FALSE)
  /\ UNCHANGED viewMode
  /\ lastOp' = <<"date">>

\* selectedFilters.includes(key) ? filter it out : append it
ToggledFilters(filters, key) ==
  IF \E i \in 1..Len(filters) : filters[i] = key
  THEN SelectSeq(filters, LAMBDA k : k # key)
  ELSE Append(filters, key)

\* FilterControl handleFilterChange, then the load effect.  The items of
\* the list stay enabled while loading; only the button opening the list is
\* disabled.
ToggleFilter(key) ==
  /\ error = Null
  /\ \E i \in 1..Len(availableFilters) : availableFilters[i] = key
  /\ issued < MaxRequests
  /\ issued' = issued + 1
  /\ selectedFilters' = ToggledFilters(selectedFilters, key)
  /\ UNCHANGED <<selectedDate, tradingDays, currentData, availableFilters,
                 availableUnderlyings, chartSettings>>
  /\ LoadEffect(selectedDate, selectedFilters')
  /\ ChartUpdate(selectedSnapshot, FALSE)
  /\ UNCHANGED viewMode
  /\ lastOp' = <<"filter">>

\* refreshData up to the await: api.refreshCache() is sent with the date
\* and the filters of the render that made the callback
RefreshClick ==
  /\ error = Null
  /\ ~loading
  /\ issued < MaxRequests
  /\ issued' = issued + 1
  /\ inflight' = inflight (+)
                   Copies(Request("refresh", selectedDate, selectedFilters), 1)
  /\ UNCHANGED <<storeVars, chartVars, lastLoad>>
  /\ lastOp' = <<"refresh">>

\* refreshData after the await, whether the cache was cleared or not:
\* loadDataForDate up to its await.  Clearing the error brings ControlPanel
\* back, whose hook runs its mount effect and its load effect.
RefreshCacheDone(r) ==
  /\ r.kind = "refresh"
  /\ BagIn(r, inflight)
  /\ loading' = TRUE
  /\ error' = Null
  /\ inflight' =
       IF error = Null
       THEN (inflight (-) SetToBag({r}))
              (+) Copies(Request("data", r.date, r.filters), 1)
       ELSE (((inflight (-) SetToBag({r}))
                (+) Copies(Request("data", r.date, r.filters), 1))
                (+) Copies(DaysRequest, 1))
                (+) Copies(Request("data", selectedDate, selectedFilters), 1)
  /\ lastLoad' =
       IF error = Null THEN Some(LoadKey(r.date, r.filters))
       ELSE Some(LoadKey(selectedDate, selectedFilters))
  /\ UNCHANGED <<selectedDate, tradingDays, currentData, availableFilters,
                 selectedFilters, availableUnderlyings, chartSettings>>
  /\ UNCHANGED issued
  /\ ChartUpdate(selectedSnapshot, FALSE)
  /\ UNCHANGED viewMode
  /\ lastOp' = <<"reload">>

--------------------------------------------------------------------------
\* The dashboard from its first render on

\* Dashboard and ControlPanel have mounted: each hook instance has started
\* loadTradingDays and loadDataForDate(selectedDate, []).
InitLoad ==
  /\ selectedDate = "d1"
  /\ tradingDays = <<>>
  /\ currentData = None
  /\ loading = TRUE
  /\ error = Null
  /\ availableFilters = <<>>
  /\ selectedFilters = <<>>
  /\ availableUnderlyings = <<>>
  /\ chartSettings = InitialChartSettings
  /\ viewMode = "expanded"
  /\ selectedSnapshot = None
  /\ pnlData = <<>>
  /\ underlyingData = <<>>
  /\ markers = <<>>
  /\ inflight = Copies(DaysRequest, 2) (+) Copies(Request("data", "d1", <<>>), 2)
  /\ issued = 0
  /\ lastLoad = Some(LoadKey("d1", <<>>))
  /\ lastOp = <<"mount">>

NextLoad ==
  \/ DaysOk
  \/ DaysFail
  \/ \E r \in BagToSet(inflight) : DataOk(r)
  \/ \E r \in BagToSet(inflight) : DataFail(r)
  \/ \E date \in {"d1", "d2", "d3"} : SetSelectedDate(date)
  \/ \E key \in {"f1"} : ToggleFilter(key)
  \/ RefreshClick
  \/ \E r \in BagToSet(inflight) : RefreshCacheDone(r)
  \/ \E param \in ClickParams : Click(param)
  \/ \E direction \in {"prev", "next"} : Navigate(direction)
  \/ CloseTooltip
  \/ ToggleTradeMarkers

SpecLoad == InitLoad /\ [][NextLoad]_vars

--------------------------------------------------------------------------
\* Properties of the chart over one loaded day

\* the delivered list and its reconciled series
Delivered == IF currentData = None THEN <<>> ELSE currentData[1].timeseries

Reconciled == UniqueChartData(Delivered)

\* the last position of the list holding chart time t
LastDeliveredAt(list, t) ==
  CHOOSE i \in 1..Len(list) :
    /\ ChartTime(list[i]) = t
    /\ \A j \in (i + 1)..Len(list) : ChartTime(list[j]) # t

\* C1: the reconciled series has exactly one entry for each time value of
\* the delivered list, and none for any other time; the entry is built from
\* the snapshot delivered last among those of that time.
C1_DedupLastWins ==
  LET in == Delivered
      out == Reconciled
  IN /\ \A i \in 1..Len(in) :
          Cardinality({k \in 1..Len(out) : out[k].time = ChartTime(in[i])}) = 1
     /\ \A k \in 1..Len(out) :
          /\ \E i \in 1..Len(in) : ChartTime(in[i]) = out[k].time
          /\ out[k] = ChartDataOf(in[LastDeliveredAt(in, out[k].time)])

\* a day delivered with a time twice, by different snapshots, on the chart
C1_Witness ==
  /\ \E i, j \in 1..Len(Delivered) :
       /\ i < j
       /\ ChartTime(Delivered[i]) = ChartTime(Delivered[j])
       /\ Delivered[i] # Delivered[j]
  /\ Len(pnlData) = 2
  /\ Len(Delivered) = 3

\* C2: the reconciled series is strictly ascending by time, whatever the
\* order of delivery.
C2_StrictlyAscending ==
  LET out == Reconciled
  IN \A k \in 1..(Len(out) - 1) : out[k].time < out[k + 1].time

\* a day delivered latest first, plotted as three points
C2_Witness ==
  /\ Len(Delivered) = 3
  /\ \A i \in 1..2 : ChartTime(Delivered[i]) > ChartTime(Delivered[i + 1])
  /\ Len(pnlData) = 3
  /\ pnlData[1].time < pnlData[2].time

\* times of the entries of the series `rec` carrying a trade, strictly
\* after / before the chart time t
TradeTimesAfter(rec, t) ==
  {rec[k].time : k \in {m \in 1..Len(rec) : IsTradeEntry(rec[m]) /\ rec[m].time > t}}

TradeTimesBefore(rec, t) ==
  {rec[k].time : k \in {m \in 1..Len(rec) : IsTradeEntry(rec[m]) /\ rec[m].time < t}}

AfterNext == NavigateResult(currentData, selectedSnapshot, "next")

AfterPrev == NavigateResult(currentData, selectedSnapshot, "prev")

\* the least / greatest element of a non-empty set of integers
Least(S) == CHOOSE x \in S : \A y \in S : x <= y

Greatest(S) == CHOOSE x \in S : \A y \in S : x >= y

\* C3: with a snapshot selected, navigate(next) selects a trade-marked
\* snapshot whose time is the smallest time of a trade-marked entry strictly
\* greater than the selection's, whatever the order of delivery.
C3_NextIsSmallestLater ==
  selectedSnapshot # None =>
    LET later == TradeTimesAfter(Reconciled, ChartTime(selectedSnapshot[1]))
        next == AfterNext
    IN later # {} =>
         /\ next # None
         /\ HasTradeMarker(next[1])
         /\ ChartTime(next[1]) = Least(later)

\* C4: with a snapshot selected, navigate(previous) selects a trade-marked
\* snapshot whose time is the largest time of a trade-marked entry strictly
\* less than the selection's, whatever the order of delivery.
C4_PrevIsLargestEarlier ==
  selectedSnapshot # None =>
    LET earlier == TradeTimesBefore(Reconciled, ChartTime(selectedSnapshot[1]))
        prev == AfterPrev
    IN earlier # {} =>
         /\ prev # None
         /\ HasTradeMarker(prev[1])
         /\ ChartTime(prev[1]) = Greatest(earlier)

HeldBy(rec, snapshot) == \E k \in 1..Len(rec) : rec[k].snapshot = snapshot

\* C5: navigation moves the selection only to a snapshot held by a
\* reconciled entry, and is available in a direction only if a reconciled
\* entry carries a trade in that direction.
C5_NavigationOverReconciled ==
  selectedSnapshot # None =>
    LET rec == Reconciled
        t == ChartTime(selectedSnapshot[1])
        next == AfterNext
        prev == AfterPrev
    IN /\ next # selectedSnapshot => HeldBy(rec, next[1])
       /\ prev # selectedSnapshot => HeldBy(rec, prev[1])
       /\ canNavigateNext => TradeTimesAfter(rec, t) # {}
       /\ canNavigatePrev => TradeTimesBefore(rec, t) # {}

\* C6: a click whose time matches no reconciled entry leaves no snapshot
\* selected.
C6_MissClearsSelection ==
  LET rec == Reconciled
  IN \A param \in ClickParams :
       (\A k \in 1..Len(rec) : rec[k].time # param.time) =>
         ClickResult(currentData, selectedSnapshot, param) = None

\* the key of the data load started last, and what the server holds for it
LastStarted == lastLoad[1]

DataInFlight ==
  \E r \in BagToSet(inflight) : r.kind \in {"data", "refresh"}

\* C7: the selected snapshot never belongs to a superseded snapshot list:
\* while a snapshot is selected, it is a snapshot of the store's current
\* data.
C7_SelectionClearedOnDataChange ==
  selectedSnapshot # None =>
    /\ currentData # None
    /\ \E i \in 1..Len(currentData[1].timeseries) :
         currentData[1].timeseries[i] = selectedSnapshot[1]

\* C8: once every data load has completed, with the load started last being
\* the one for the selected date and filters, the store's current data, if
\* any, its available filters and its available underlyings are those of
\* the load started last.
C8_LastRequestWins ==
  (/\ ~DataInFlight
   /\ LastStarted = LoadKey(selectedDate, selectedFilters)
   /\ currentData # None) =>
    LET dayData == ServerData(LastStarted.date, LastStarted.filters)
    IN /\ currentData = Some(dayData)
       /\ availableFilters = ServerFilters(LastStarted.date)
       /\ availableUnderlyings = SortedUnderlyings(dayData.timeseries)

\* C9: canNavigatePrev (canNavigateNext) is true exactly when navigate('prev')
\* (navigate('next')) changes the selected snapshot.
C9_CanNavigateAgrees ==
  /\ canNavigateNext <=> AfterNext # selectedSnapshot
  /\ canNavigatePrev <=> AfterPrev # selectedSnapshot

\* navigation forward was available and has moved the selection; from the
\* snapshot reached there is nothing further, and a way back
C9_Witness ==
  /\ lastOp = <<"navigate", "next">>
  /\ selectedSnapshot # None
  /\ HasTradeMarker(selectedSnapshot[1])
  /\ ~canNavigateNext
  /\ canNavigatePrev

\* C10: with no trade-marked entry strictly after (before) the selection,
\* navigate(next) (navigate(previous)) leaves the selection unchanged and
\* the flag of that direction is false.
C10_BoundaryNoOp ==
  selectedSnapshot # None =>
    LET rec == Reconciled
        t == ChartTime(selectedSnapshot[1])
    IN /\ TradeTimesAfter(rec, t) = {} =>
            (AfterNext = selectedSnapshot /\ ~canNavigateNext)
       /\ TradeTimesBefore(rec, t) = {} =>
            (AfterPrev = selectedSnapshot /\ ~canNavigatePrev)

\* C11: with no snapshot selected, canNavigatePrev and canNavigateNext are
\* both false and navigate in either direction leaves nothing selected,
\* whatever the snapshot list contains.
C11_NoSelectionNoNavigation ==
  selectedSnapshot = None =>
    /\ ~canNavigatePrev
    /\ ~canNavigateNext
    /\ AfterNext = None
    /\ AfterPrev = None

\* the tooltip has been closed over a day that has trades
C11_Witness ==
  /\ lastOp = <<"close">>
  /\ selectedSnapshot = None
  /\ Len(TradeSnapshots(Delivered)) > 0

\* C12: if navigate(next) moves the selection from a trade-marked snapshot
\* A to a snapshot B, and no trade-marked entry of the reconciled series
\* lies strictly between the times of A and B, then navigate(previous) from
\* B selects A again.
C12_NavigatorSymmetry ==
  selectedSnapshot # None =>
    LET a == selectedSnapshot
        b == AfterNext
        rec == Reconciled
        between == {k \in 1..Len(rec) :
                      /\ IsTradeEntry(rec[k])
                      /\ rec[k].time > ChartTime(a[1])
                      /\ rec[k].time < ChartTime(b[1])}
    IN (b # a /\ HasTradeMarker(a[1]) /\ between = {}) =>
         NavigateResult(currentData, b, "prev") = a

\* C13: for every entry of the reconciled series, a click at the entry's
\* time selects exactly the entry's snapshot, which is the snapshot
\* delivered last for that time; a click at a time no entry has finds no
\* snapshot and selects none that was not selected before.
C13_LocatorExactness ==
  LET in == Delivered
      rec == Reconciled
  IN /\ \A k \in 1..Len(rec) :
          /\ ClickResult(currentData, selectedSnapshot,
                         [point |-> TRUE, time |-> rec[k].time])
               = Some(rec[k].snapshot)
          /\ rec[k].snapshot = in[LastDeliveredAt(in, rec[k].time)]
     /\ \A param \in ClickParams :
          (/\ param.point
           /\ param.time # NoTime
           /\ \A k \in 1..Len(rec) : rec[k].time # param.time) =>
            /\ FindSnapshot(in, param.time) = None
            /\ ClickResult(currentData, selectedSnapshot, param)
                 \in {None, selectedSnapshot}

\* a click has selected the later of two snapshots delivered for one time
C13_Witness ==
  /\ lastOp = <<"click">>
  /\ selectedSnapshot # None
  /\ Len(Delivered) = 2
  /\ ChartTime(Delivered[1]) = ChartTime(Delivered[2])
  /\ Delivered[1] # Delivered[2]
  /\ selectedSnapshot[1] = Delivered[2]

\* C14: the marker list handed to setMarkers is ascending by time in every
\* state, whatever the order of delivery and wherever the time of the
\* selected snapshot falls among the trade-marked entries.
C14_MarkersAscending ==
  \A k \in 1..(Len(markers) - 1) : markers[k].time <= markers[k + 1].time

\* a click has selected a snapshot earlier than a trade: the selection
\* marker, pushed last, stands first
C14_Witness ==
  /\ lastOp = <<"click">>
  /\ selectedSnapshot # None
  /\ Len(markers) = 2
  /\ markers[1].position = "aboveBar"
  /\ markers[2].position = "belowBar"
  /\ markers[1].time < markers[2].time

\* the positions of the marker list holding a trade annotation at time t
TradeAnnotationsAt(t) ==
  {i \in 1..Len(markers) : markers[i].position = "belowBar" /\ markers[i].time = t}

SelectionAnnotations ==
  {i \in 1..Len(markers) : markers[i].position = "aboveBar"}

SnapshotsOf(series) == [k \in 1..Len(series) |-> series[k].snapshot]

\* C18: reconciling the snapshots of the reconciled series, taken in the
\* order of the series, yields the same series.
C18_ReconcileIdempotent ==
  LET rec == Reconciled
  IN UniqueChartData(SnapshotsOf(rec)) = rec

\* a day delivered latest first with a time twice: reconciling changed
\* both the order and the length of the list
C18_Witness ==
  /\ Len(Delivered) = 3
  /\ Len(Reconciled) = 2
  /\ SnapshotsOf(Reconciled) # SubSeq(Delivered, 1, 2)
  /\ SnapshotsOf(Reconciled) # SubSeq(Delivered, 2, 3)
  /\ ChartTime(Delivered[1]) > ChartTime(Delivered[3])
  /\ Len(pnlData) = 2

\* C19: the time of a reconciled entry is the snapshot's timestamp cut down
\* to whole seconds: every time of the series is a whole number of seconds,
\* and snapshots whose timestamps differ in the part below the second only
\* share one entry.
C19_IntegerSecondKey ==
  LET in == Delivered
      rec == Reconciled
  IN /\ \A k \in 1..Len(rec) :
          /\ rec[k].time % 1000 = 0
          /\ rec[k].time = rec[k].snapshot.timestamp[1] * 1000
     /\ \A i, j \in 1..Len(in) :
          in[i].timestamp[1] = in[j].timestamp[1] =>
            Cardinality({k \in 1..Len(rec) :
                           rec[k].time \in {ChartTime(in[i]), ChartTime(in[j])}})
              = 1

\* C20: the P&L series handed to the rendering layer holds exactly the
\* reconciled entries whose total_pnl is a finite number, in the order of
\* the series: a missing, a NaN and an infinite value are all left out.
C20_PnlFinite ==
  currentData # None =>
    LET Finite(d) == d.value.kind = "number"
        kept == SelectSeq(Reconciled, Finite)
    IN pnlData = [i \in 1..Len(kept) |->
                    [time |-> kept[i].time, value |-> kept[i].value]]

--------------------------------------------------------------------------
\* The chart over one loaded day whose total_pnl and underlying_price may be
\* missing or not a number, on snapshots with and without a trade.

ValLen == 2
ValTime == 2

\* <<total_pnl, underlying_price>> as they arrive
ValuePairs ==
  {<<Num(100), Num(50)>>, <<Undefined, Num(50)>>, <<NaN, Undefined>>}

ValSnapshots ==
  {SnapshotData(<<t>>, v[1], v[2], m, <<>>) :
     t \in 1..ValTime, v \in ValuePairs, m \in {Absent, "adjustment"}}

\* the delivered lists of n snapshots
ValInputs(n) == [1..n -> ValSnapshots]

InitValues ==
  \E n \in 0..ValLen : \E ts \in ValInputs(n) :
    InitOver(Some(TradingDayData("d1", ts)))

NextValues ==
  \/ \E param \in ClickParams : Click(param)
  \/ \E direction \in {"prev", "next"} : Navigate(direction)
  \/ CloseTooltip
  \/ ToggleTradeMarkers

SpecValues == InitValues /\ [][NextValues]_vars

\* a snapshot whose numeric fields are missing or not a number
Malformed(snapshot) ==
  \/ snapshot.total_pnl.kind # "number"
  \/ snapshot.underlying_price.kind # "number"

\* the snapshot with well-formed numeric fields in their place
Repaired(snapshot) ==
  [snapshot EXCEPT !.total_pnl = Num(100), !.underlying_price = Num(50)]

RepairedList(timeseries) ==
  [i \in 1..Len(timeseries) |-> Repaired(timeseries[i])]

RepairedOpt(selected) ==
  IF selected = None THEN None ELSE Some(Repaired(selected[1]))

RepairedData(data) ==
  IF data = None THEN None
  ELSE Some(TradingDayData(data[1].date, RepairedList(data[1].timeseries)))

--------------------------------------------------------------------------
\* The chart over one loaded day whose positions name an underlying, with
\* the spot chart selector of the control panel.

UndLen == 2
UndTime == 2

\* UnderlyingSelector: handleUnderlyingSelect(underlying), underlying being
\* null for 'Hide Spot Chart'.  The selector is rendered while there are
\* underlyings, and its button opens the list unless loading.
SelectUnderlying(underlying) ==
  /\ error = Null
  /\ ~loading
  /\ availableUnderlyings # <<>>
  /\ \/ underlying = Null
     \/ \E i \in 1..Len(availableUnderlyings) :
          availableUnderlyings[i] = underlying
  /\ chartSettings' = [chartSettings EXCEPT !.selectedUnderlying = underlying]
  /\ UNCHANGED <<selectedDate, tradingDays, currentData, loading, error,
                 availableFilters, selectedFilters, availableUnderlyings>>
  /\ UNCHANGED netVars
  /\ ChartUpdate(selectedSnapshot, FALSE)
  /\ UNCHANGED viewMode
  /\ lastOp' = <<"underlying", underlying>>

UndValues == {Num(50), NaN, Infinity, Undefined, JsonNull}

UndSnapshots ==
  {SnapshotData(<<t>>, pnl, und, Absent, <<PositionOf("NIFTY")>>) :
     t \in 1..UndTime, pnl \in {Num(100), Undefined}, und \in UndValues}

\* the delivered lists of n snapshots
UndInputs(n) == [1..n -> UndSnapshots]

\* The store and the chart once the day `data` has loaded from the initial
\* store and no request is in flight: the loader has published the
\* underlyings of the positions and selected the first of them.
InitLoaded(data) ==
  LET sortedUnderlyings == SortedUnderlyings(data.timeseries)
      selected == IF Len(sortedUnderlyings) > 0
                  THEN sortedUnderlyings[1] ELSE Null
  IN /\ selectedDate = "d1"
     /\ tradingDays = <<"d1">>
     /\ currentData = Some(data)
     /\ loading = FALSE
     /\ error = Null
     /\ availableFilters = <<>>
     /\ selectedFilters = <<>>
     /\ availableUnderlyings = sortedUnderlyings
     /\ chartSettings =
          [InitialChartSettings EXCEPT !.selectedUnderlying = selected]
     /\ viewMode = "expanded"
     /\ selectedSnapshot = None
     /\ pnlData = PnlSeries(data.timeseries)
     /\ underlyingData = IF selected # Null
                         THEN UnderlyingSeries(data.timeseries) ELSE <<>>
     /\ markers = AllMarkers(data.timeseries, TRUE, None)
     /\ inflight = EmptyBag
     /\ issued = 0
     /\ lastLoad = None
     /\ lastOp = <<"init">>

InitUnderlying ==
  \E n \in 0..UndLen : \E ts \in UndInputs(n) :
    InitLoaded(TradingDayData("d1", ts))

NextUnderlying ==
  \/ \E underlying \in {Null, "NIFTY"} : SelectUnderlying(underlying)
  \/ \E param \in ClickParams : Click(param)
  \/ CloseTooltip
  \/ ToggleTradeMarkers

SpecUnderlying == InitUnderlying /\ [][NextUnderlying]_vars

\* a finite number
Finite(x) == x.kind = "number"

\* C22: while an underlying is selected, the underlying series handed to the
\* rendering layer holds, in order, exactly the reconciled entries whose
\* underlying_price is a finite number, whatever their total_pnl; while
\* none is selected the chart carries no underlying data.
C22_UnderlyingSeries ==
  LET rec == Reconciled
      HasPrice(d) == Finite(d.underlying)
      kept == SelectSeq(rec, HasPrice)
  IN (currentData # None) =>
       IF chartSettings.selectedUnderlying # Null
       THEN underlyingData =
              [i \in 1..Len(kept) |->
                 [time |-> kept[i].time, value |-> kept[i].underlying]]
       ELSE underlyingData = <<>>

\* C23: while the current data is absent or its snapshot list is empty, the
\* plotted P&L series is empty, the annotation list is empty and neither
\* navigation flag is set.
C23_EmptyCase ==
  (currentData = None \/ Delivered = <<>>) =>
    /\ pnlData = <<>>
    /\ markers = <<>>
    /\ ~canNavigatePrev
    /\ ~canNavigateNext

--------------------------------------------------------------------------
\* The chart over a day delivered as four snapshots at the times 10, 10, 20
\* and 5, and over every other list made of these snapshots.

ExampleLen == 4

ExampleFirst == SnapshotData(<<10>>, Num(100), Undefined, Absent, <<>>)
ExampleSecond == SnapshotData(<<10>>, Num(150), Undefined, "square_up", <<>>)
ExampleThird == SnapshotData(<<20>>, Num(90), Undefined, "none", <<>>)
ExampleFourth == SnapshotData(<<5>>, Num(0), Undefined, "adjustment", <<>>)

ExampleDay == <<ExampleFirst, ExampleSecond, ExampleThird, ExampleFourth>>

ExampleSnapshots == {ExampleDay[i] : i \in 1..Len(ExampleDay)}

\* the delivered lists of n snapshots
ExampleInputs(n) == [1..n -> ExampleSnapshots]

\* what the rendering layer reports for a click on such a day
ExampleClickParams ==
  {[point |-> FALSE, time |-> NoTime]} \cup
  {[point |-> TRUE, time |-> ChartTime(x)] : x \in ExampleSnapshots}

InitExample ==
  \E n \in 0..ExampleLen : \E ts \in ExampleInputs(n) :
    InitOver(Some(TradingDayData("d1", ts)))

NextExample ==
  \/ \E param \in ExampleClickParams : Click(param)
  \/ \E direction \in {"prev", "next"} : Navigate(direction)
  \/ CloseTooltip

SpecExample == InitExample /\ [][NextExample]_vars

\* C24: for the day delivered as T=10 (pnl 100, no marker), T=10 (pnl 150,
\* square_up), T=20 (pnl 90, marker none), T=5 (pnl 0, adjustment) the
\* reconciled series is (5, 0, adjustment), (10, 150, square_up),
\* (20, 90, none); a click at time 10 selects the pnl 150 snapshot; from
\* that selection 'next' is unavailable and leaves the selection, and
\* 'previous' is available and selects the T=5 snapshot.
C24_WorkedExample ==
  LET rec == Reconciled
      atTen == [point |-> TRUE, time |-> ChartTime(ExampleSecond)]
  IN (currentData # None /\ Delivered = ExampleDay) =>
       /\ [i \in 1..Len(rec) |->
             <<rec[i].time, rec[i].value, rec[i].snapshot.trade_marker>>] =
            <<<<5000, Num(0), "adjustment">>,
              <<10000, Num(150), "square_up">>,
              <<20000, Num(90), "none">>>>
       /\ ClickResult(currentData, selectedSnapshot, atTen) =
            Some(ExampleSecond)
       /\ ~GetNavigationState(currentData, Some(ExampleSecond)).canNavigateNext
       /\ NavigateResult(currentData, Some(ExampleSecond), "next") =
            Some(ExampleSecond)
       /\ GetNavigationState(currentData, Some(ExampleSecond)).canNavigatePrev
       /\ NavigateResult(currentData, Some(ExampleSecond), "prev") =
            Some(ExampleFourth)
       /\ (selectedSnapshot = Some(ExampleSecond)) => ~canNavigateNext
       /\ (lastOp = <<"click">> /\ selectedSnapshot # None) =>
            \E k \in 1..Len(rec) : rec[k].snapshot = selectedSnapshot[1]

\* On the day of the example 'previous' has selected the T=5 snapshot.
C24_Witness ==
  /\ currentData # None
  /\ Delivered = ExampleDay
  /\ lastOp = <<"navigate", "prev">>
  /\ selectedSnapshot = Some(ExampleFourth)
  /\ canNavigateNext
  /\ ~canNavigatePrev

\* a trading-days load or a day-data load of the hook has not completed
FetchInFlight ==
  \E r \in BagToSet(inflight) : r.kind \in {"days", "data"}

\* C25: store.loading is true while a trading-days load or a day-data load
\* started by any instance of the hook has not completed, and false once
\* all of them have.
C25_LoadingCoversInFlight == loading <=> FetchInFlight

\* C26: in every state of the store an error excludes data: error non-null
\* implies that currentData is null.
C26_ErrorExcludesData == (error # Null) => (currentData = None)

--------------------------------------------------------------------------
\* The store and the loader from the first render on, with the selectors of
\* the control panel and without the events of the chart.

NextStore ==
  \/ DaysOk
  \/ DaysFail
  \/ \E r \in BagToSet(inflight) : DataOk(r)
  \/ \E r \in BagToSet(inflight) : DataFail(r)
  \/ \E date \in {"d1", "d2", "d3"} : SetSelectedDate(date)
  \/ \E key \in {"f1"} : ToggleFilter(key)
  \/ RefreshClick
  \/ \E r \in BagToSet(inflight) : RefreshCacheDone(r)
  \/ \E underlying \in {Null, "BANKNIFTY", "NIFTY"} :
       SelectUnderlying(underlying)

SpecStore == InitLoad /\ [][NextStore]_vars

\* the underlying is one of the available underlyings
IsAvailable(underlying) ==
  \E i \in 1..Len(availableUnderlyings) :
    availableUnderlyings[i] = underlying

\* C27: while no load is in flight, chartSettings.selectedUnderlying is null
\* or one of availableUnderlyings.
C27_SelectedUnderlyingValid ==
  (inflight = EmptyBag) =>
    \/ chartSettings.selectedUnderlying = Null
    \/ IsAvailable(chartSettings.selectedUnderlying)

\* the underlyings named by the positions of a day
NamedUnderlyings(data) ==
  UNION {{data.timeseries[i].positions[j].instrument.underlying_symbol :
            j \in 1..Len(data.timeseries[i].positions)} :
         i \in 1..Len(data.timeseries)}

\* the place of a symbol in alphabetical order
AlphabeticalRank(symbol) ==
  CHOOSE i \in 1..Len(SymbolOrder) : SymbolOrder[i] = symbol

\* C28: a day-data load that lands with positions naming at least one
\* underlying sets selectedUnderlying to the alphabetically first of them
\* if none was selected when it landed, and only then; no data load,
\* successful or failed, changes a non-null selectedUnderlying.
C28_AutoSelection ==
  [][/\ (lastOp' = <<"data">> /\ NamedUnderlyings(currentData'[1]) # {}) =>
         LET named == NamedUnderlyings(currentData'[1])
             first == CHOOSE u \in named :
                        \A v \in named :
                          AlphabeticalRank(u) <= AlphabeticalRank(v)
         IN chartSettings'.selectedUnderlying =
              IF chartSettings.selectedUnderlying = Null
              THEN first
              ELSE chartSettings.selectedUnderlying
     /\ (lastOp' \in {<<"data">>, <<"dataFailed">>}
           /\ chartSettings.selectedUnderlying # Null) =>
         chartSettings'.selectedUnderlying = chartSettings.selectedUnderlying
    ]_vars

\* A day naming BANKNIFTY and NIFTY has landed while the user's choice NIFTY
\* was selected, and NIFTY is still selected.
C28_Witness ==
  /\ lastOp = <<"data">>
  /\ currentData # None
  /\ NamedUnderlyings(currentData[1]) = {"BANKNIFTY", "NIFTY"}
  /\ availableUnderlyings = <<"BANKNIFTY", "NIFTY">>
  /\ chartSettings.selectedUnderlying = "NIFTY"

--------------------------------------------------------------------------
\* The date picker step by step: the store action first, then the load
\* effect of the render that follows it, with the tabs of the tooltip and
\* the display mode toggle.

\* the tabs of the tooltip
ViewModes == {"expanded", "delta"}

\* ChartTooltip onViewModeChange: useStore.setViewMode
SetViewMode(mode) ==
  /\ ChartOnScreen
  /\ selectedSnapshot # None
  /\ viewMode' = mode
  /\ UNCHANGED <<selectedDate, tradingDays, currentData, loading, error,
                 availableFilters, selectedFilters, availableUnderlyings,
                 chartSettings>>
  /\ UNCHANGED netVars
  /\ ChartUpdate(selectedSnapshot, FALSE)
  /\ lastOp' = <<"viewMode">>

\* DisplayModeToggle handleToggle
ToggleDisplayMode ==
  /\ error = Null
  /\ ~loading
  /\ chartSettings' =
       [chartSettings EXCEPT
          !.displayMode = IF chartSettings.displayMode = "quantity"
                          THEN "lots" ELSE "quantity"]
  /\ UNCHANGED <<selectedDate, tradingDays, currentData, loading, error,
                 availableFilters, selectedFilters, availableUnderlyings,
                 viewMode>>
  /\ UNCHANGED netVars
  /\ ChartUpdate(selectedSnapshot, FALSE)
  /\ lastOp' = <<"displayMode">>

\* the load effect has not yet run for the date the store has just taken
EffectPending == lastOp[1] = "setSelectedDate"

\* useStore.setSelectedDate leaving the available underlyings in place
SetSelectedDateKeeping(date) ==
  /\ ~EffectPending
  /\ error = Null
  /\ ~loading
  /\ \E i \in 1..Len(tradingDays) : tradingDays[i] = date
  /\ date # selectedDate
  /\ issued < MaxRequests
  /\ selectedDate' = date
  /\ selectedFilters' = <<>>
  /\ availableFilters' = <<>>
  /\ chartSettings' = [chartSettings EXCEPT !.selectedUnderlying = Null]
  /\ UNCHANGED <<tradingDays, currentData, loading, error, viewMode,
                 availableUnderlyings>>
  /\ UNCHANGED netVars
  /\ ChartUpdate(selectedSnapshot, FALSE)
  /\ lastOp' = <<"setSelectedDate">>

\* DatePicker onChange: useStore.setSelectedDate(date), and the render of
\* the components subscribed to the store
SetSelectedDateStore(date) ==
  /\ ~EffectPending
  /\ error = Null
  /\ ~loading
  /\ \E i \in 1..Len(tradingDays) : tradingDays[i] = date
  /\ date # selectedDate
  /\ issued < MaxRequests
  /\ selectedDate' = date
  /\ selectedFilters' = <<>>
  /\ availableFilters' = <<>>
  /\ availableUnderlyings' = <<>>
  /\ chartSettings' = [chartSettings EXCEPT !.selectedUnderlying = Null]
  /\ UNCHANGED <<tradingDays, currentData, loading, error, viewMode>>
  /\ UNCHANGED netVars
  /\ ChartUpdate(selectedSnapshot, FALSE)
  /\ lastOp' = <<"setSelectedDate">>

\* the load effect [selectedDate, selectedFilters] after that render
RunLoadEffect ==
  /\ EffectPending
  /\ issued' = issued + 1
  /\ LoadEffect(selectedDate, selectedFilters)
  /\ UNCHANGED <<selectedDate, tradingDays, currentData, availableFilters,
                 selectedFilters, availableUnderlyings, chartSettings,
                 viewMode>>
  /\ ChartUpdate(selectedSnapshot, FALSE)
  /\ lastOp' = <<"date">>

\* a click on the point of the first second of the day, which opens the
\* tooltip
FirstPointClick == {[point |-> TRUE, time |-> DateGetTime(<<1>>)]}

NextSetDate ==
  \/ \E date \in {"d1", "d2", "d3"} : SetSelectedDateStore(date)
  \/ RunLoadEffect
  \/ ~EffectPending /\ DaysOk
  \/ ~EffectPending /\ \E r \in BagToSet(inflight) : DataOk(r)
  \/ ~EffectPending /\ \E key \in {"f1"} : ToggleFilter(key)
  \/ ~EffectPending /\ \E param \in FirstPointClick : Click(param)
  \/ ~EffectPending /\ \E mode \in ViewModes : SetViewMode(mode)
  \/ ~EffectPending /\ ToggleDisplayMode

SpecSetDate == InitLoad /\ [][NextSetDate]_vars

\* C29: setSelectedDate(d) sets selectedDate to d, empties selectedFilters,
\* availableFilters and availableUnderlyings and sets
\* chartSettings.selectedUnderlying to null; it leaves currentData,
\* tradingDays, loading, error, viewMode and the other fields of
\* chartSettings as they were.
C29_SetSelectedDateFrame ==
  [][(lastOp' = <<"setSelectedDate">>) =>
       /\ selectedDate' # selectedDate
       /\ \E i \in 1..Len(tradingDays) : tradingDays[i] = selectedDate'
       /\ selectedFilters' = <<>>
       /\ availableFilters' = <<>>
       /\ availableUnderlyings' = <<>>
       /\ chartSettings'.selectedUnderlying = Null
       /\ chartSettings' = [chartSettings EXCEPT !.selectedUnderlying = Null]
       /\ chartSettings'.showTradeMarkers = chartSettings.showTradeMarkers
       /\ chartSettings'.displayMode = chartSettings.displayMode
       /\ chartSettings'.isFullscreen = chartSettings.isFullscreen
       /\ chartSettings'.showMarketContext = chartSettings.showMarketContext
       /\ UNCHANGED <<currentData, tradingDays, loading, error, viewMode>>
    ]_vars

\* The store has just taken the date d2 while the filtered day d1 was on
\* display with an underlying selected, the Delta tab open and the display
\* in lots.
C29_Witness ==
  /\ lastOp = <<"setSelectedDate">>
  /\ selectedDate = "d2"
  /\ currentData = Some(ServerData("d1", <<"f1">>))
  /\ selectedFilters = <<>>
  /\ availableFilters = <<>>
  /\ availableUnderlyings = <<>>
  /\ chartSettings.selectedUnderlying = Null
  /\ chartSettings.showTradeMarkers
  /\ chartSettings.displayMode = "lots"
  /\ viewMode = "delta"
  /\ tradingDays = ServerDays
  /\ ~loading
  /\ error = Null

--------------------------------------------------------------------------
\* Lots (lib/lotUtils.ts) and the Change column of the Delta tab.  A string
\* is the sequence of its characters.  A number with at most two decimals
\* is kept in hundredths: 150 is 1.5.

MaxLots == 2

LOT_SIZES ==
  [NIFTY |-> 75, BANKNIFTY |-> 15, SENSEX |-> 20, BANKEX |-> 15,
   FINNIFTY |-> 40, MIDCPNIFTY |-> 75]

\* LOT_SIZES[underlying.toUpperCase()] || 1, for symbols in upper case
getLotSize(underlying) ==
  IF underlying \in DOMAIN LOT_SIZES THEN LOT_SIZES[underlying] ELSE 1

\* Math.abs
MathAbs(x) == IF x < 0 THEN 0 - x ELSE x

\* Math.round(quantity / lotSize * 100) / 100 in hundredths, for a
\* quantity that is not negative: the nearest integer, halves upwards
quantityToLots(quantity, underlying) ==
  LET lotSize == getLotSize(underlying)
  IN (200 * quantity + lotSize) \div (2 * lotSize)

DigitChar(d) == <<"0", "1", "2", "3", "4", "5", "6", "7", "8", "9">>[d + 1]

\* the decimal digits of a natural number
RECURSIVE DigitString(_)
DigitString(n) ==
  IF n < 10 THEN <<DigitChar(n)>>
  ELSE DigitString(n \div 10) \o <<DigitChar(n % 10)>>

\* Number.prototype.toString() of the number of h hundredths
NumberToString(h) ==
  LET a == MathAbs(h)
      frac == a % 100
      decimals == IF frac = 0 THEN <<>>
                  ELSE IF frac % 10 = 0 THEN <<".", DigitChar(frac \div 10)>>
                  ELSE <<".", DigitChar(frac \div 10), DigitChar(frac % 10)>>
  IN (IF h < 0 THEN <<"-">> ELSE <<>>) \o DigitString(a \div 100) \o decimals

formatChangeDisplay(oldQty, newQty, underlying, mode) ==
  IF mode = "lots"
  THEN LET oldLots == quantityToLots(MathAbs(oldQty), underlying)
           newLots == quantityToLots(MathAbs(newQty), underlying)
           netChange == newLots - oldLots
           oldSign == IF oldQty < 0 THEN <<"-">> ELSE <<>>
           newSign == IF newQty < 0 THEN <<"-">> ELSE <<>>
           netSign == IF netChange > 0 THEN <<"+">> ELSE <<>>
       IN [old |-> IF oldQty = 0 THEN <<"0">>
                   ELSE oldSign \o NumberToString(oldLots),
           new |-> IF newQty = 0 THEN <<"0">>
                   ELSE newSign \o NumberToString(newLots),
           net |-> netSign \o NumberToString(MathAbs(netChange))]
  ELSE LET netChange == newQty - oldQty
           netSign == IF netChange > 0 THEN <<"+">> ELSE <<>>
       IN [old |-> NumberToString(100 * oldQty),
           new |-> NumberToString(100 * newQty),
           net |-> netSign \o NumberToString(100 * netChange)]

\* old_quantity and new_quantity of a PositionChange: whole lots of either
\* sign and odd quantities
Quantities ==
  {sign * k * lot : sign \in {-1, 1}, k \in 0..MaxLots, lot \in {1, 15, 75}}

\* instrument.underlying_symbol, '' for a change without instrument
ChangeUnderlyings == {"NIFTY", "BANKNIFTY", ""}

\* DeltaView: the Change cell of a quantity_change row
RenderChange(oldQty, newQty, underlying) ==
  /\ ChartOnScreen
  /\ UNCHANGED <<storeVars, chartVars, netVars>>
  /\ lastOp' = <<"formatChangeDisplay", oldQty, newQty, underlying,
                 formatChangeDisplay(oldQty, newQty, underlying,
                                     chartSettings.displayMode)>>

InitFormat == InitOver(None)

NextFormat ==
  \/ \E oldQty \in Quantities, newQty \in Quantities,
        underlying \in ChangeUnderlyings :
       RenderChange(oldQty, newQty, underlying)
  \/ ToggleDisplayMode

SpecFormat == InitFormat /\ [][NextFormat]_vars

\* the sign a string starts with, '' if it starts with none
SignShown(str) ==
  IF str # <<>> /\ str[1] \in {"+", "-"} THEN str[1] ELSE ""

\* C30: in either display mode the 'net' string of formatChangeDisplay
\* starts with '+' when the new quantity is greater than the old and with
\* '-' when it is smaller, and the two modes show the same sign for the
\* same pair of quantities.
C30_NetChangeSign ==
  (lastOp[1] = "formatChangeDisplay") =>
    LET oldQty == lastOp[2]
        newQty == lastOp[3]
        underlying == lastOp[4]
        net == lastOp[5].net
    IN /\ (newQty > oldQty) => SignShown(net) = "+"
       /\ (newQty < oldQty) => SignShown(net) = "-"
       /\ SignShown(formatChangeDisplay(oldQty, newQty, underlying,
                                        "quantity").net) =
            SignShown(formatChangeDisplay(oldQty, newQty, underlying,
                                          "lots").net)
====
